---- MODULE Spec2Model ----
(***************************************************************************)
(* color-thief-rs: median-cut palette extraction (src/src/lib.rs).         *)
(*                                                                         *)
(* One call of get_palette is modelled as a sequential program: the pixel  *)
(* scan of make_histogram_and_vbox (one step per loop iteration), the two  *)
(* iterate phases of quantize (one step per loop iteration, the nudge      *)
(* loops of cut one step per loop iteration), and the final map/truncate.  *)
(*                                                                         *)
(* The histogram is the 32768-entry array of the source restricted to the  *)
(* entries that were incremented: an index outside its DOMAIN reads 0,     *)
(* which is the value the array holds there.  Sums over the cells of a     *)
(* box therefore range over the populated cells inside the box.            *)
(***************************************************************************)
EXTENDS Integers, Sequences, FiniteSets, TLC

VARIABLES
    pixels,        \* get_palette argument: the raw byte buffer
    color_format,  \* get_palette argument
    quality,       \* get_palette argument (the sampler's `step`)
    max_colors,    \* get_palette argument
    pc,            \* position in the call
    i,             \* make_histogram_and_vbox: pixel loop index
    mm,            \* make_histogram_and_vbox: r_min .. b_max accumulators
    histogram,     \* reduced-space histogram (populated entries)
    pq,            \* quantize: the "priority queue" of VBoxes
    phase,         \* which iterate call of quantize is running (1 or 2)
    target,        \* iterate: target
    color,         \* iterate: color
    iter,          \* iterate: number of loop iterations started
    vbox,          \* iterate/cut: the box popped from the queue
    vboxes,        \* iterate: the pair apply_median_cut returned last
    cutst,         \* cut: axis, candidate i, partial sums, d2, count2
    result         \* value returned by get_palette ("none" while running)

vars == <<pixels, color_format, quality, max_colors, pc, i, mm, histogram,
          pq, phase, target, color, iter, vbox, vboxes, cutst, result>>

---------------------------------------------------------------------------
(* Program constants                                                       *)

SIGNAL_BITS == 5
RIGHT_SHIFT == 8 - SIGNAL_BITS
MULTIPLIER == 2 ^ RIGHT_SHIFT
HISTOGRAM_SIZE == 2 ^ (3 * SIGNAL_BITS)
VBOX_LENGTH == 2 ^ SIGNAL_BITS
MAX_ITERATIONS == 1000

\* FRACTION_BY_POPULATION = 0.75 as the exact fraction 3/4
FRACTION_NUM == 3
FRACTION_DEN == 4

ColorFormat == {"Rgb", "Rgba", "Argb", "Bgr", "Bgra"}

Min2(a, b) == IF a <= b THEN a ELSE b
Max2(a, b) == IF a >= b THEN a ELSE b

---------------------------------------------------------------------------
(* Histogram and VBox                                                      *)

make_color_index_of(red, green, blue) ==
    red * (2 ^ (2 * SIGNAL_BITS)) + green * (2 ^ SIGNAL_BITS) + blue

\* the coordinates packed in a histogram index
IndexRed(idx) == idx \div (2 ^ (2 * SIGNAL_BITS))
IndexGreen(idx) == (idx \div (2 ^ SIGNAL_BITS)) % (2 ^ SIGNAL_BITS)
IndexBlue(idx) == idx % (2 ^ SIGNAL_BITS)

\* histogram[index]
HistAt(h, idx) == IF idx \in DOMAIN h THEN h[idx] ELSE 0

\* the populated histogram cells the nested loops r_min..r_max+1,
\* g_min..g_max+1, b_min..b_max+1 visit
CellsIn(v, h) ==
    { idx \in DOMAIN h :
        /\ v.r_min <= IndexRed(idx)   /\ IndexRed(idx)   <= v.r_max
        /\ v.g_min <= IndexGreen(idx) /\ IndexGreen(idx) <= v.g_max
        /\ v.b_min <= IndexBlue(idx)  /\ IndexBlue(idx)  <= v.b_max }

RECURSIVE SumOver(_, _, _)
\* sum over the cells S of histogram[idx] * w, w = 1 or the cell's
\* (coordinate + 0.5) * MULTIPLIER on channel ch
SumOver(h, S, ch) ==
    IF S = {} THEN 0
    ELSE LET idx == CHOOSE x \in S : TRUE
             w == CASE ch = "n" -> 1
                    [] ch = "r" -> MULTIPLIER * IndexRed(idx) + MULTIPLIER \div 2
                    [] ch = "g" -> MULTIPLIER * IndexGreen(idx) + MULTIPLIER \div 2
                    [] ch = "b" -> MULTIPLIER * IndexBlue(idx) + MULTIPLIER \div 2
         IN  h[idx] * w + SumOver(h, S \ {idx}, ch)

VBoxNew(r_min, r_max, g_min, g_max, b_min, b_max) ==
    [r_min |-> r_min, r_max |-> r_max,
     g_min |-> g_min, g_max |-> g_max,
     b_min |-> b_min, b_max |-> b_max,
     average |-> <<0, 0, 0>>, volume |-> 0, count |-> 0]

calc_volume(v) ==
    (v.r_max - v.r_min + 1) * (v.g_max - v.g_min + 1) * (v.b_max - v.b_min + 1)

calc_count(v, h) == SumOver(h, CellsIn(v, h), "n")

calc_average(v, h) ==
    LET S == CellsIn(v, h)
        ntot == SumOver(h, S, "n")
    IN  IF ntot > 0
        THEN << (SumOver(h, S, "r") \div ntot) % 256,
                (SumOver(h, S, "g") \div ntot) % 256,
                (SumOver(h, S, "b") \div ntot) % 256 >>
        ELSE << Min2((MULTIPLIER * (v.r_min + v.r_max + 1)) \div 2, 255),
                Min2((MULTIPLIER * (v.g_min + v.g_max + 1)) \div 2, 255),
                Min2((MULTIPLIER * (v.b_min + v.b_max + 1)) \div 2, 255) >>

recalc(v, h) ==
    [v EXCEPT !.average = calc_average(v, h),
              !.count = calc_count(v, h),
              !.volume = calc_volume(v)]

\* integer overflow panics in a debug build and wraps in a release build
Builds == {"debug", "release"}

\* u8 subtraction as a release build computes it; WidthOverflow tells when a
\* debug build panics instead
U8Sub(a, b) == (a - b) % 256

widest_color_channel(v) ==
    LET r_width == U8Sub(v.r_max, v.r_min)
        g_width == U8Sub(v.g_max, v.g_min)
        b_width == U8Sub(v.b_max, v.b_min)
        max == Max2(Max2(r_width, g_width), b_width)
    IN  IF max = r_width THEN "Red"
        ELSE IF max = g_width THEN "Green"
        ELSE "Blue"

WidthOverflow(v) == v.r_max < v.r_min \/ v.g_max < v.g_min \/ v.b_max < v.b_min

AxisMin(v, axis) ==
    CASE axis = "Red" -> v.r_min [] axis = "Green" -> v.g_min [] axis = "Blue" -> v.b_min
AxisMax(v, axis) ==
    CASE axis = "Red" -> v.r_max [] axis = "Green" -> v.g_max [] axis = "Blue" -> v.b_max
AxisOf(idx, axis) ==
    CASE axis = "Red" -> IndexRed(idx)
      [] axis = "Green" -> IndexGreen(idx)
      [] axis = "Blue" -> IndexBlue(idx)

\* "let mut color = 1" at the start of iterate (a u8: it stays below 256,
\* being at most max(target, 2))
ColorStart == 1

---------------------------------------------------------------------------
(* Pixel sampler                                                           *)

colors_count(fmt) ==
    CASE fmt = "Rgb" -> 3 [] fmt = "Rgba" -> 4 [] fmt = "Argb" -> 4
      [] fmt = "Bgr" -> 3 [] fmt = "Bgra" -> 4

\* (r, g, b, a) of the pixel whose first byte is at 0-based offset pos
color_parts(px, fmt, pos) ==
    CASE fmt = "Rgb"  -> <<px[pos + 1], px[pos + 2], px[pos + 3], 255>>
      [] fmt = "Rgba" -> <<px[pos + 1], px[pos + 2], px[pos + 3], px[pos + 4]>>
      [] fmt = "Argb" -> <<px[pos + 2], px[pos + 3], px[pos + 4], px[pos + 1]>>
      [] fmt = "Bgr"  -> <<px[pos + 3], px[pos + 2], px[pos + 1], 255>>
      [] fmt = "Bgra" -> <<px[pos + 3], px[pos + 2], px[pos + 1], px[pos + 4]>>

pixel_count == Len(pixels) \div colors_count(color_format)

\* "If pixel is mostly opaque or white": the pixel is not counted
SkipPixel(p) == p[4] < 125 \/ (p[1] > 250 /\ p[2] > 250 /\ p[3] > 250)

\* the pixel loop's increment of i
SampleAdvance(idx, cc, step) == idx + cc * step

ShiftRight(x) == x \div (2 ^ RIGHT_SHIFT)

MmInit == [r_min |-> 255, r_max |-> 0, g_min |-> 255, g_max |-> 0,
           b_min |-> 255, b_max |-> 0]

NoBox == VBoxNew(0, 0, 0, 0, 0, 0)

\* Option<VBox>: None, Some(v)
None == << >>
Some(v) == <<v>>

NoCut == [axis |-> "none", partial_sum |-> <<>>, look_ahead_sum |-> <<>>,
          total |-> 0, i |-> 0, d2 |-> 0, count2 |-> 0]

\* one iteration of the while loop of make_histogram_and_vbox
SampleStep ==
    /\ pc = "sample"
    /\ i < pixel_count
    /\ LET cc == colors_count(color_format)
           p == color_parts(pixels, color_format, i * cc)
           shifted_r == ShiftRight(p[1])
           shifted_g == ShiftRight(p[2])
           shifted_b == ShiftRight(p[3])
           index == make_color_index_of(shifted_r, shifted_g, shifted_b)
       IN  /\ i' = SampleAdvance(i, cc, quality)
           /\ IF SkipPixel(p)
              THEN UNCHANGED <<mm, histogram>>
              ELSE /\ mm' = [r_min |-> Min2(mm.r_min, shifted_r),
                             r_max |-> Max2(mm.r_max, shifted_r),
                             g_min |-> Min2(mm.g_min, shifted_g),
                             g_max |-> Max2(mm.g_max, shifted_g),
                             b_min |-> Min2(mm.b_min, shifted_b),
                             b_max |-> Max2(mm.b_max, shifted_b)]
                   /\ histogram' = [k \in DOMAIN histogram \cup {index} |->
                                      HistAt(histogram, k) + (IF k = index THEN 1 ELSE 0)]
    /\ UNCHANGED <<pixels, color_format, quality, max_colors, pc, pq, phase,
                   target, color, iter, vbox, vboxes, cutst, result>>

\* target of the first iterate call: ceil(0.75 * max_colors)
Phase1Target(m) == (FRACTION_NUM * m + FRACTION_DEN - 1) \div FRACTION_DEN

\* the pixel loop ends: the initial VBox, the queue, and the first iterate call
SampleReturn ==
    /\ pc = "sample"
    /\ ~(i < pixel_count)
    /\ LET vb == recalc(VBoxNew(mm.r_min, mm.r_max, mm.g_min, mm.g_max,
                                mm.b_min, mm.b_max), histogram)
       IN  pq' = <<vb>>
    /\ phase' = 1
    /\ target' = Phase1Target(max_colors)
    /\ color' = ColorStart
    /\ iter' = 0
    /\ pc' = "iterate"
    /\ UNCHANGED <<pixels, color_format, quality, max_colors, i, mm, histogram,
                   vbox, vboxes, cutst, result>>

---------------------------------------------------------------------------
(* Comparators and the stable sort of Vec::sort_by                         *)

Cmp(a, b) == IF a < b THEN "Less" ELSE IF a = b THEN "Equal" ELSE "Greater"

compare_by_count(a, b) == Cmp(a.count, b.count)

compare_by_product(a, b) ==
    IF a.count = b.count
    THEN Cmp(a.volume, b.volume)
    ELSE Cmp(a.count * a.volume, b.count * b.volume)

Compare(comparator, a, b) ==
    IF comparator = "compare_by_count" THEN compare_by_count(a, b)
    ELSE compare_by_product(a, b)

\* the place of s[k] after a stable sort: behind every element that compares
\* Less, and behind the Equal ones that stand before it
SortedPlace(comparator, s, k) ==
    1 + Cardinality({ j \in 1..Len(s) :
                        \/ Compare(comparator, s[j], s[k]) = "Less"
                        \/ (Compare(comparator, s[j], s[k]) = "Equal" /\ j < k) })

\* queue.sort_by(comparator): ascending, equal elements keep their order
sort_by(comparator, s) ==
    [r \in 1..Len(s) |->
        s[CHOOSE k \in 1..Len(s) : SortedPlace(comparator, s, k) = r]]

Comparator == IF phase = 1 THEN "compare_by_count" ELSE "compare_by_product"

Reverse(s) == [k \in 1..Len(s) |-> s[Len(s) + 1 - k]]

---------------------------------------------------------------------------
(* Median-cut splitter                                                     *)

\* the populated cells of the box whose coordinate on the axis is <= k
CellsUpTo(v, h, axis, k) == { idx \in CellsIn(v, h) : AxisOf(idx, axis) <= k }

\* partial_sum: -1 outside the box's range on the axis, the running total inside
PartialSum(v, h, axis) ==
    [k \in 0..(VBOX_LENGTH - 1) |->
        IF AxisMin(v, axis) <= k /\ k <= AxisMax(v, axis)
        THEN SumOver(h, CellsUpTo(v, h, axis, k), "n")
        ELSE -1]

\* total after the axis loop
AxisTotal(v, h) == SumOver(h, CellsIn(v, h), "n")

LookAheadSum(partial_sum, total) ==
    [k \in DOMAIN partial_sum |->
        IF partial_sum[k] # -1 THEN total - partial_sum[k] ELSE -1]

\* what apply_median_cut does with the box before it builds the sums
MedianCutEntry(v) ==
    IF v.count = 0 THEN "InvalidVBox"
    ELSE IF v.count = 1 THEN "NoSplit"
    ELSE "Cut"

\* faulty variant of CutCandidates: the scan compares with total, not total / 2
CutCandidatesWhole(partial_sum, total, vbox_min, vbox_max) ==
    { k \in vbox_min..vbox_max : ~(partial_sum[k] <= total) }

\* the coordinates at which the scan of cut stops skipping
CutCandidates(partial_sum, total, vbox_min, vbox_max) ==
    { k \in vbox_min..vbox_max : ~(partial_sum[k] <= total \div 2) }

SetMin(S) == CHOOSE x \in S : \A y \in S : x <= y

\* ((i - 1) as f64 - left as f64 / 2.0) as i32: the exact value is
\* (2 * (i - 1) - left) / 2, and the cast truncates toward zero
FloatCut(ci, left) ==
    LET n == 2 * (ci - 1) - left
    IN  IF n >= 0 THEN n \div 2 ELSE -((-n) \div 2)

\* the first value of d2
InitialD2(ci, vbox_min, vbox_max) ==
    LET left == ci - vbox_min
        right == vbox_max - ci
    IN  IF left <= right
        THEN Min2(vbox_max - 1, ci + right \div 2)
        ELSE Max2(vbox_min, FloatCut(ci, left))

\* while d2 < 0 || partial_sum[d2 as usize] <= 0
NudgeForwardCond(partial_sum, d2) ==
    IF d2 < 0 THEN TRUE ELSE partial_sum[d2] <= 0

\* while count2 == 0 && d2 > 0 && partial_sum[d2 as usize - 1] > 0
NudgeBackwardCond(partial_sum, count2, d2) ==
    count2 = 0 /\ d2 > 0 /\ partial_sum[d2 - 1] > 0

\* faulty variant of CutBoxes: the second box starts at d2, not at d2 + 1
CutBoxesOverlap(v, h, axis, d2) ==
    LET lo == d2 % 256
        vbox1 == CASE axis = "Red"   -> [v EXCEPT !.r_max = lo]
                   [] axis = "Green" -> [v EXCEPT !.g_max = lo]
                   [] axis = "Blue"  -> [v EXCEPT !.b_max = lo]
        vbox2 == CASE axis = "Red"   -> [v EXCEPT !.r_min = lo]
                   [] axis = "Green" -> [v EXCEPT !.g_min = lo]
                   [] axis = "Blue"  -> [v EXCEPT !.b_min = lo]
    IN  <<recalc(vbox1, h), recalc(vbox2, h)>>

\* "Set dimensions" and recalc: the two boxes cut returns
CutBoxes(v, h, axis, d2) ==
    LET lo == d2 % 256
        hi == (d2 + 1) % 256
        vbox1 == CASE axis = "Red"   -> [v EXCEPT !.r_max = lo]
                   [] axis = "Green" -> [v EXCEPT !.g_max = lo]
                   [] axis = "Blue"  -> [v EXCEPT !.b_max = lo]
        vbox2 == CASE axis = "Red"   -> [v EXCEPT !.r_min = hi]
                   [] axis = "Green" -> [v EXCEPT !.g_min = hi]
                   [] axis = "Blue"  -> [v EXCEPT !.b_min = hi]
    IN  <<recalc(vbox1, h), recalc(vbox2, h)>>

---------------------------------------------------------------------------
(* iterate                                                                 *)

Pop(s) == SubSeq(s, 1, Len(s) - 1)

\* faulty variant of SkipsBox: an empty box is handed to apply_median_cut
SkipsNothing(v) == FALSE

\* "if vbox.count == 0 { queue.sort_by(comparator); continue; }"
SkipsBox(v) == v.count = 0

\* faulty variant of BreakNow: the loop breaks one color late
BreakLate(c, t) == c > t

\* "if color >= target { break; }"
BreakNow(c, t) == c >= t

\* faulty variant of Running: the loop runs 0..=MAX_ITERATIONS
RunningOneMore == pc = "iterate" /\ iter <= MAX_ITERATIONS

Running == pc = "iterate" /\ iter < MAX_ITERATIONS

\* the loop of iterate is over: the budget is used up, or it broke out
IterateOver == IF pc = "iterate" THEN ~(iter < MAX_ITERATIONS) ELSE pc = "iterate_end"

Fail(e) ==
    /\ result' = [ok |-> FALSE, error |-> e, colors |-> <<>>]
    /\ pc' = "done"

\* an iteration whose last box is empty (or whose queue is empty)
IterateSkip ==
    /\ Running
    /\ IF pq = <<>> THEN TRUE ELSE SkipsBox(pq[Len(pq)])
    /\ pq' = IF pq = <<>> THEN pq ELSE sort_by(Comparator, pq)
    /\ iter' = iter + 1
    /\ UNCHANGED <<pixels, color_format, quality, max_colors, pc, i, mm, histogram,
                   phase, target, color, vbox, vboxes, cutst, result>>

\* an iteration whose box apply_median_cut does not cut
IterateApply ==
    /\ Running
    /\ pq # <<>>
    /\ ~SkipsBox(pq[Len(pq)])
    /\ MedianCutEntry(pq[Len(pq)]) # "Cut"
    /\ IF MedianCutEntry(pq[Len(pq)]) = "InvalidVBox"
       THEN /\ Fail("InvalidVBox")
            /\ pq' = Pop(pq)
            /\ UNCHANGED <<iter, vboxes>>
       ELSE /\ vboxes' = <<pq[Len(pq)], None>>
            /\ \E pushed \in {Append(Pop(pq), pq[Len(pq)])} :
                  pq' = sort_by(Comparator, pushed)
            /\ iter' = iter + 1
            /\ pc' = IF BreakNow(color, target) THEN "iterate_end" ELSE "iterate"
            /\ UNCHANGED result
    /\ vbox' = pq[Len(pq)]
    /\ UNCHANGED <<pixels, color_format, quality, max_colors, i, mm, histogram,
                   phase, target, color, cutst>>

\* an iteration that cuts: apply_median_cut builds the sums, cut finds the
\* candidate coordinate and the first d2
IterateCut ==
    /\ Running
    /\ pq # <<>>
    /\ ~SkipsBox(pq[Len(pq)])
    /\ MedianCutEntry(pq[Len(pq)]) = "Cut"
    /\ LET v == pq[Len(pq)]
           axis == widest_color_channel(v)
           ps == PartialSum(v, histogram, axis)
           total == AxisTotal(v, histogram)
           la == LookAheadSum(ps, total)
           vbox_min == AxisMin(v, axis)
           vbox_max == AxisMax(v, axis)
           cand == CutCandidates(ps, total, vbox_min, vbox_max)
       IN  /\ pq' = Pop(pq)
           /\ \E build \in Builds :
              IF WidthOverflow(v) /\ build = "debug"
              THEN /\ Fail("panic") /\ UNCHANGED <<vbox, cutst>>
              ELSE IF cand = {}
              THEN /\ Fail("VBoxCutFailed") /\ UNCHANGED <<vbox, cutst>>
              ELSE /\ vbox' = v
                   /\ cutst' = [axis |-> axis, partial_sum |-> ps,
                                look_ahead_sum |-> la, total |-> total,
                                i |-> SetMin(cand),
                                d2 |-> InitialD2(SetMin(cand), vbox_min, vbox_max),
                                count2 |-> 0]
                   /\ pc' = "nudge_fwd"
                   /\ UNCHANGED result
    /\ UNCHANGED <<pixels, color_format, quality, max_colors, i, mm, histogram,
                   phase, target, color, iter, vboxes>>

\* one iteration of the "Avoid 0-count" loop
NudgeForward ==
    /\ pc = "nudge_fwd"
    /\ IF cutst.d2 >= VBOX_LENGTH
       THEN /\ Fail("panic") /\ UNCHANGED cutst
       ELSE /\ NudgeForwardCond(cutst.partial_sum, cutst.d2)
            /\ cutst' = [cutst EXCEPT !.d2 = cutst.d2 + 1]
            /\ UNCHANGED <<pc, result>>
    /\ UNCHANGED <<pixels, color_format, quality, max_colors, i, mm, histogram,
                   pq, phase, target, color, iter, vbox, vboxes>>

\* the forward loop ends: count2 = look_ahead_sum[d2]
NudgeTurn ==
    /\ pc = "nudge_fwd"
    /\ cutst.d2 < VBOX_LENGTH
    /\ ~NudgeForwardCond(cutst.partial_sum, cutst.d2)
    /\ cutst' = [cutst EXCEPT !.count2 = cutst.look_ahead_sum[cutst.d2]]
    /\ pc' = "nudge_back"
    /\ UNCHANGED <<pixels, color_format, quality, max_colors, i, mm, histogram,
                   pq, phase, target, color, iter, vbox, vboxes, result>>

\* one iteration of the backward loop
NudgeBackward ==
    /\ pc = "nudge_back"
    /\ NudgeBackwardCond(cutst.partial_sum, cutst.count2, cutst.d2)
    /\ cutst' = [cutst EXCEPT !.d2 = cutst.d2 - 1,
                              !.count2 = cutst.look_ahead_sum[cutst.d2 - 1]]
    /\ UNCHANGED <<pixels, color_format, quality, max_colors, pc, i, mm, histogram,
                   pq, phase, target, color, iter, vbox, vboxes, result>>

\* cut returns its two boxes; iterate pushes both, counts the color, sorts
\* and tests the target
CutReturn ==
    /\ pc = "nudge_back"
    /\ ~NudgeBackwardCond(cutst.partial_sum, cutst.count2, cutst.d2)
    /\ \E cut \in {CutBoxes(vbox, histogram, cutst.axis, cutst.d2)} :
          /\ vboxes' = <<cut[1], Some(cut[2])>>
          /\ \E pushed \in {Append(Append(pq, cut[1]), cut[2])} :
                pq' = sort_by(Comparator, pushed)
    /\ color' = color + 1
    /\ iter' = iter + 1
    /\ pc' = IF BreakNow(color + 1, target) THEN "iterate_end" ELSE "iterate"
    /\ UNCHANGED <<pixels, color_format, quality, max_colors, i, mm, histogram,
                   phase, target, vbox, cutst, result>>

---------------------------------------------------------------------------
(* quantize after each iterate call                                        *)

\* faulty variant of Phase2Target: one color more
Phase2TargetOff(m, len) == m - len + 1

\* target of the second iterate call: max_colors - len, in u8
Phase2Target(m, len) == m - len

\* the first iterate call returned Ok: re-sort by product, second call
Phase1Return ==
    /\ IterateOver
    /\ phase = 1
    /\ LET sorted == sort_by("compare_by_product", pq)
           len == Len(sorted) % 256
       IN  /\ pq' = sorted
           /\ IF Phase2Target(max_colors, len) < 0
              THEN /\ \E build \in Builds :
                        IF build = "debug"
                        THEN /\ Fail("panic")
                             /\ UNCHANGED <<phase, target, color, iter>>
                        ELSE /\ target' = Phase2Target(max_colors, len) % 256
                             /\ phase' = 2
                             /\ color' = ColorStart
                             /\ iter' = 0
                             /\ pc' = "iterate"
                             /\ UNCHANGED result
              ELSE /\ target' = Phase2Target(max_colors, len)
                   /\ phase' = 2
                   /\ color' = ColorStart
                   /\ iter' = 0
                   /\ pc' = "iterate"
                   /\ UNCHANGED result
    /\ UNCHANGED <<pixels, color_format, quality, max_colors, i, mm, histogram,
                   vbox, vboxes, cutst>>

\* faulty variant of Truncate: the colors are returned as they are
TruncateNone(s, n) == s

Truncate(s, n) == IF Len(s) <= n THEN s ELSE SubSeq(s, 1, n)

\* the colors quantize returns
Palette(queue, m) ==
    LET rev == Reverse(queue)
        colors == [k \in 1..Len(rev) |-> rev[k].average]
    IN  Truncate(colors, m)

\* the second iterate call returned Ok: reverse, map to averages, truncate
Phase2Return ==
    /\ IterateOver
    /\ phase = 2
    /\ pq' = Reverse(pq)
    /\ result' = [ok |-> TRUE, error |-> "none", colors |-> Palette(pq, max_colors)]
    /\ pc' = "done"
    /\ UNCHANGED <<pixels, color_format, quality, max_colors, i, mm, histogram,
                   phase, target, color, iter, vbox, vboxes, cutst>>

---------------------------------------------------------------------------
(* Inputs                                                                  *)

\* the bytes of one pixel <<r, g, b, a>> in a format's layout
Encode(fmt, c) ==
    CASE fmt = "Rgb"  -> <<c[1], c[2], c[3]>>
      [] fmt = "Rgba" -> <<c[1], c[2], c[3], c[4]>>
      [] fmt = "Argb" -> <<c[4], c[1], c[2], c[3]>>
      [] fmt = "Bgr"  -> <<c[3], c[2], c[1]>>
      [] fmt = "Bgra" -> <<c[3], c[2], c[1], c[4]>>

RECURSIVE Flatten(_, _)
Flatten(fmt, img) ==
    IF img = <<>> THEN <<>> ELSE Encode(fmt, Head(img)) \o Flatten(fmt, Tail(img))

Red == <<255, 0, 0, 255>>
Green == <<0, 255, 0, 255>>
Blue == <<0, 0, 255, 255>>
White == <<255, 255, 255, 255>>
Black == <<0, 0, 0, 255>>
DarkRed == <<8, 0, 0, 255>>
Clear == <<0, 0, 0, 0>>

\* bounds of the inputs
MaxPixels == 9
MaxQuality == 2
MaxColorsSmall == 4
MaxColorsBig == 8

\* images are a short tile repeated up to a length
Tiles == { <<Clear>>, <<Red>>, <<Red, Green, Blue, White>>,
           <<Black, DarkRed, Red>>, <<Black, Green, Red, Black>> }

Tiled(tile, n) == [k \in 1..n |-> tile[((k - 1) % Len(tile)) + 1]]

\* 0: the empty buffer; 4: a 2x2 image; MaxPixels: three samples or more
\* at the smallest strides
Lengths == {0, 4, MaxPixels}

Images == { Tiled(t, n) : t \in Tiles, n \in Lengths }

Init ==
    /\ color_format \in ColorFormat
    /\ quality \in 1..MaxQuality
    /\ max_colors \in (2..MaxColorsSmall) \cup (8..MaxColorsBig)
    /\ pixels \in { Flatten(color_format, img) : img \in Images }
    /\ pc = "sample"
    /\ i = 0
    /\ mm = MmInit
    /\ histogram = << >>
    /\ pq = << >>
    /\ phase = 0
    /\ target = 0
    /\ color = 0
    /\ iter = 0
    /\ vbox = NoBox
    /\ vboxes = <<NoBox, None>>
    /\ cutst = NoCut
    /\ result = [ok |-> FALSE, error |-> "running", colors |-> <<>>]

Next ==
    \/ SampleStep
    \/ SampleReturn
    \/ IterateSkip
    \/ IterateApply
    \/ IterateCut
    \/ NudgeForward
    \/ NudgeTurn
    \/ NudgeBackward
    \/ CutReturn
    \/ Phase1Return
    \/ Phase2Return

Spec == Init /\ [][Next]_vars

---------------------------------------------------------------------------
(* Properties                                                              *)

Done == pc = "done"
ReturnedOk == pc = "done" /\ result.ok
Survivors == DOMAIN histogram # {}
Boxes == { pq[k] : k \in 1..Len(pq) }

\* C1: when get_palette returns Ok the palette has at most max_colors
\* entries, and at least one entry when a sampled pixel survived the
\* transparency / near-white skip.
C1_PaletteLength ==
    ReturnedOk =>
        /\ Len(result.colors) <= max_colors
        /\ (Survivors => Len(result.colors) >= 1)

\* C1 witness: a call that returned a full palette cut down from a longer queue
C1_Witness ==
    /\ ReturnedOk
    /\ Survivors
    /\ Len(pq) > max_colors
    /\ Len(result.colors) = max_colors

\* an RGBA buffer of one pixel or more whose alpha bytes are all below 125
AllTransparentRgba ==
    /\ color_format = "Rgba"
    /\ pixel_count >= 1
    /\ \A k \in 0..(pixel_count - 1) : pixels[4 * k + 4] < 125

Abs(x) == IF x >= 0 THEN x ELSE -x
Near(c, ref) == \A k \in 1..3 : Abs(c[k] - ref[k]) <= 8

\* C3: with quality 1 every pixel is sampled: the RGB buffer red, green,
\* blue, white with max_colors 4 gives exactly 3 colors, one within 8 per
\* channel of each of red, green and blue.
C3_Claimed ==
    ( /\ Done
      /\ color_format = "Rgb" /\ quality = 1 /\ max_colors = 4
      /\ pixels = Flatten("Rgb", <<Red, Green, Blue, White>>) )
    => /\ result.ok
       /\ Len(result.colors) = 3
       /\ \A ref \in {Red, Green, Blue} :
             \E k \in 1..Len(result.colors) : Near(result.colors[k], ref)

\* the bounds C4 puts on the loops
C4_Bounded ==
    /\ iter <= MAX_ITERATIONS
    /\ (pc = "nudge_fwd" => cutst.d2 \in -1..(VBOX_LENGTH - 1))
    /\ (pc = "nudge_back" => cutst.d2 \in 0..(VBOX_LENGTH - 1))
    /\ result.error # "panic"

\* what one loop iteration of iterate can cost in steps: the nudge loops
\* move d2 over at most the whole partial-sum array, forward then backward
IterationWeight == 3 * VBOX_LENGTH + 4
PhaseWeight == MAX_ITERATIONS * IterationWeight + 2

\* a bound on the number of steps the call still takes
Measure ==
    CASE pc = "sample" ->
            2 * PhaseWeight + 1 + (IF i < pixel_count THEN pixel_count - i ELSE 0)
      [] pc \in {"iterate", "iterate_end"} ->
            (2 - phase) * PhaseWeight + 1 + (MAX_ITERATIONS - iter) * IterationWeight
      [] pc = "nudge_fwd" ->
            (2 - phase) * PhaseWeight + 1 + (MAX_ITERATIONS - iter - 1) * IterationWeight
              + 2 * VBOX_LENGTH + 3 - cutst.d2
      [] pc = "nudge_back" ->
            (2 - phase) * PhaseWeight + 1 + (MAX_ITERATIONS - iter - 1) * IterationWeight
              + 1 + cutst.d2
      [] pc = "done" -> 0

\* C4: get_palette terminates: each iterate phase runs at most 1000 loop
\* iterations, the nudge loops of cut keep d2 inside the partial-sum array
\* and stop inside 0..=31, and the call returns: it is never stuck before
\* it has returned, and every step lowers a bound that stays >= 0.
C4_Terminates ==
    /\ []C4_Bounded
    /\ [](Measure >= 0)
    /\ [](Done \/ ENABLED Next)
    /\ [][Measure' < Measure]_vars

\* C4 witness: a phase used its whole budget after a cut whose nudge loops
\* moved d2
C4_Witness ==
    /\ pc = "iterate"
    /\ iter = MAX_ITERATIONS
    /\ cutst.axis # "none"
    /\ cutst.d2 # InitialD2(cutst.i, AxisMin(vbox, cutst.axis), AxisMax(vbox, cutst.axis))

WellFormed(v) == v.r_min <= v.r_max /\ v.g_min <= v.g_max /\ v.b_min <= v.b_max

\* C5: every VBox of a call (the initial one and every one pushed after a
\* split) has min <= max on the red, green and blue axes.
C5_Claimed == \A v \in Boxes : WellFormed(v)

Axes == {"Red", "Green", "Blue"}

\* the last cut is complete and its boxes are in vbox and vboxes
CutDone == pc \in {"iterate", "iterate_end", "done"} /\ vboxes[2] # None

\* two boxes share no cell: on some axis their ranges do not meet
BoxesDisjoint(a, b) ==
    \E x \in Axes : AxisMax(a, x) < AxisMin(b, x) \/ AxisMax(b, x) < AxisMin(a, x)

\* C6: a cut of a box with count >= 2 returns two boxes that share no cell,
\* keep the parent's bounds on the two other axes, and have the ranges
\* [parent.min, d2] and [d2 + 1, parent.max] on the widest axis, d2 inside
\* the parent's range.
C6_SplitPartitions ==
    CutDone =>
        LET x == cutst.axis
            d2 == cutst.d2
            vbox1 == vboxes[1]
            vbox2 == vboxes[2][1]
        IN  /\ x = widest_color_channel(vbox)
            /\ AxisMin(vbox1, x) = AxisMin(vbox, x)
            /\ AxisMax(vbox1, x) = d2
            /\ AxisMin(vbox2, x) = d2 + 1
            /\ AxisMax(vbox2, x) = AxisMax(vbox, x)
            /\ AxisMin(vbox, x) <= d2 /\ d2 <= AxisMax(vbox, x)
            /\ \A o \in Axes \ {x} :
                  /\ AxisMin(vbox1, o) = AxisMin(vbox, o)
                  /\ AxisMax(vbox1, o) = AxisMax(vbox, o)
                  /\ AxisMin(vbox2, o) = AxisMin(vbox, o)
                  /\ AxisMax(vbox2, o) = AxisMax(vbox, o)
            /\ BoxesDisjoint(vbox1, vbox2)

\* C6 witness: a cut that left pixels on both sides
C6_Witness ==
    /\ CutDone
    /\ vbox.count >= 2
    /\ vboxes[1].count >= 1
    /\ vboxes[2][1].count >= 1

\* C7 as stated: the queue never holds more than max_colors boxes.
C7_Claimed == Len(pq) <= max_colors

\* C7 amended: the queue never holds more than max_colors + 1 boxes, and
\* never more than max_colors when max_colors >= 4.
C7_Amended ==
    /\ Len(pq) <= max_colors + 1
    /\ (max_colors >= 4 => Len(pq) <= max_colors)

\* C7 witness: a queue of exactly max_colors boxes, max_colors >= 4
C7_Witness == max_colors >= 4 /\ phase = 2 /\ Len(pq) = max_colors

\* C8: in both phases, when iterate returns Ok with its counter below the
\* target, no box left in the queue has count >= 2.
C8_Claimed ==
    (pc = "iterate" /\ iter = MAX_ITERATIONS /\ color < target) =>
        \A v \in Boxes : v.count < 2

\* C9: get_palette returns Ok for every input: no InvalidVBox, no
\* VBoxCutFailed (and no panic) is produced.
C9_AlwaysOk ==
    /\ result.error \notin {"InvalidVBox", "VBoxCutFailed", "panic"}
    /\ (Done => result.ok)

\* C9 witness: a call returned Ok after cuts and with an empty box in the queue
C9_Witness ==
    /\ ReturnedOk
    /\ Len(pq) >= 2
    /\ \E v \in Boxes : v.count = 0
    /\ \E v \in Boxes : v.count >= 2

\* C10: for max_colors >= 8 the returned palette has at most
\* max_colors - 1 entries.
C10_OneShort ==
    (ReturnedOk /\ max_colors >= 8) => Len(result.colors) <= max_colors - 1

\* C10 witness: a palette of exactly max_colors - 1 entries, max_colors >= 8
C10_Witness ==
    /\ ReturnedOk
    /\ max_colors >= 8
    /\ Len(result.colors) = max_colors - 1

\* the call returns when every enabled step is eventually taken
FairSpec == Spec /\ WF_vars(Next)
Terminates == <>Done

====
